---- MODULE Spec2Model ----
(***************************************************************************)
(* Masked autoencoder (models_mae.py) and its fine-tuning loop             *)
(* (engine_finetune.py): patch codec, masking engine, the two decoders,    *)
(* the reconstruction loss, and the train / evaluate loops.                *)
(*                                                                         *)
(* Tensors are records [shape, data]: data is the contiguous row-major     *)
(* buffer (a sequence, flat index f stored at data[f+1]).                  *)
(***************************************************************************)
EXTENDS Integers, Sequences, FiniteSets, TLC

VARIABLES
    \* ---- patch codec (patchify / unpatchify) ----
    codec_pc,       \* "idle" | "start" | "patched" | "done" | "failed"
    patch_size,     \* self.patch_embed.patch_size[0]
    imgs,           \* input image tensor (N, C, H, W)
    x_patches,      \* patchify(imgs): (N, L, p*p*3)
    imgs_out,       \* unpatchify(x_patches): (N, 3, H, W)
    \* ---- masking engine (random_masking) ----
    mask_pc,        \* "idle" | "start" | "done" | "failed"
    mask_err,       \* "none" | "randint" | "reshape" | "assert"
    x_in,           \* x: (N, L, D) token sequence
    ratio_num,      \* mask_ratio = ratio_num / MaskDen
    mask_type,      \* "random" | "block" | "block_remove"
    noise,          \* (N, L) noise the shuffle sorts
    ids_shuffle,    \* argsort(noise)
    ids_restore,    \* returned: argsort(ids_shuffle)
    x_masked,       \* returned: (N, len_keep, D) kept tokens
    mask,           \* returned: (N, L) binary mask, 0 keep / 1 remove
    \* ---- forward (encoder, the two decoders, the loss) ----
    fwd_pc,         \* "idle" | "start" | "encoded" | "decoded" | "lossed" | "returned"
    latent,         \* forward_encoder output (N, 1 + len_keep, D)
    dec_seq,        \* forward_decoder: x as it enters the decoder blocks (N, L + 1, Ddec)
    pred,           \* forward_decoder output (N, L, p*p*3)
    mae_loss,       \* forward_loss output
    l_ids_shuffle,  \* forward_l_decoder: ids_shuffle recomputed from ids_restore
    latent_pred,    \* forward_l_decoder output (N, T - 1, D)
    \* ---- train_one_epoch / evaluate, one copy of the locals per worker process ----
    mode,           \* "idle" | "train" | "evaluate"
    epoch,          \* the epoch argument of train_one_epoch
    world,          \* number of worker processes (world size)
    accum_iter,     \* args.accum_iter
    num_batches,    \* len(data_loader), the same on every worker
    seed,           \* multi-worker runs: which dataset the shards are cut from
    fault,          \* multi-worker runs: where a non-finite loss is injected, if anywhere
    wpc,            \* per worker: "start" | "loop" | "reducing" | "syncing" | "synced" | "returned" | "exited"
    step,           \* per worker: number of loop iterations completed (the next data_iter_step)
    batches,        \* per worker: the batches the data loader has yielded so far
    meters,         \* per worker: metric_logger.meters, name -> [count, total]
    grads,          \* per worker: batches whose backward is accumulated in the .grad buffers
    applied,        \* per worker: the gradients each optimizer step has applied
    log,            \* per worker: what each iteration that passed the finite check did
    loss_value_reduce,  \* per worker: result of misc.all_reduce_mean(loss_value)
    contrib,        \* per worker: the meters handed to the cross-process synchronization
    stats           \* per worker: the returned dict, name -> global_avg

codecVars == <<codec_pc, patch_size, imgs, x_patches, imgs_out>>
maskVars == <<mask_pc, mask_err, x_in, ratio_num, mask_type, noise,
              ids_shuffle, ids_restore, x_masked, mask>>
fwdVars == <<fwd_pc, latent, dec_seq, pred, mae_loss, l_ids_shuffle, latent_pred>>
engineVars == <<mode, epoch, world, accum_iter, num_batches, seed, fault, wpc, step, batches,
                meters, grads, applied, log, loss_value_reduce, contrib, stats>>
vars == <<codecVars, maskVars, fwdVars, engineVars>>

\* what each machine leaves alone
codecOthers == <<maskVars, fwdVars, engineVars>>
maskOthers == <<codecVars, fwdVars, engineVars>>
fwdOthers == <<codecVars, engineVars>>
engineOthers == <<codecVars, maskVars, fwdVars>>

----------------------------------------------------------------------------
(* Bounds of the model *)
MaxN == 2          \* batch sizes 1..MaxN
MaxSide == 4       \* image height / width 1..MaxSide
MaxP == 2          \* patch edge 1..MaxP
MaxL == 3          \* sequence lengths 1..MaxL (any strategy)
MaxGrid == 3       \* block strategies also get L = g*g, g in 1..MaxGrid
TokenDim == 2      \* token width D of the sequences that are masked (embed_dim)
DecDim == 1        \* decoder token width (decoder_embed_dim)
MaxFwdGrid == 2    \* forward: images of g x g patches, g in 1..MaxFwdGrid
RatioBits == 2     \* mask ratios are the multiples of 1 / 2^RatioBits in [0, 1]
MaxNoise == 1      \* torch.rand values are drawn from 0..MaxNoise
MaxTrainBatches == 3   \* single-process training: len(data_loader) in 1..MaxTrainBatches
MaxAccum == 3      \* accum_iter in 1..MaxAccum
MaxBatches == 2    \* evaluation and multi-worker runs: len(data_loader) in 1..MaxBatches
MaxBatchSize == 2  \* samples per batch 1..MaxBatchSize
MaxLoss == 1       \* finite loss values 0..MaxLoss
MaxWorkers == 2    \* multi-worker runs: 2..MaxWorkers worker processes
MaxSeed == 2       \* multi-worker runs: datasets 0..MaxSeed
MaxEpochs == 2     \* runs of several epochs: epochs 0..MaxEpochs - 1

(* Program constants *)
Channels == 3      \* the literal 3 of patchify / unpatchify

\* mask ratios are dyadic, so that the float product L * (1 - mask_ratio) is exact
MaskDen == 2 ^ RatioBits

None == [shape |-> <<>>, data |-> <<>>]

----------------------------------------------------------------------------
(* Tensor helpers: what torch's reshape / einsum / gather do to a buffer *)

RECURSIVE Prod(_)
Prod(s) == IF s = <<>> THEN 1 ELSE Head(s) * Prod(Tail(s))

Numel(shape) == Prod(shape)

\* row-major stride of axis i
Stride(shape, i) == Prod(SubSeq(shape, i + 1, Len(shape)))

\* multi-index (0-based, one entry per axis) of flat index f
Unflatten(shape, f) == [i \in 1..Len(shape) |-> (f \div Stride(shape, i)) % shape[i]]

RECURSIVE SumTo(_, _)
SumTo(F, n) == IF n = 0 THEN 0 ELSE F[n] + SumTo(F, n - 1)

\* flat index of a multi-index
Flatten(shape, m) == SumTo([i \in 1..Len(shape) |-> m[i] * Stride(shape, i)], Len(shape))

\* a buffer of n elements, element g (1-based) being F(g)
Buffer(n, F(_)) == SubSeq([g \in 1..n |-> F(g)], 1, n)

\* x.reshape(shape): same buffer, new shape (only defined when the sizes agree)
Reshape(t, shape) == [shape |-> shape, data |-> t.data]

\* torch.einsum that only permutes axes: output axis k is input axis perm[k]
EinsumPermute(t, perm) ==
    LET oshape == [k \in 1..Len(perm) |-> t.shape[perm[k]]]
        src(f) == LET m == Unflatten(oshape, f)
                  IN  SumTo([k \in 1..Len(perm) |-> m[k] * Stride(t.shape, perm[k])], Len(perm))
    IN  [shape |-> oshape,
         data  |-> Buffer(Numel(oshape), LAMBDA g : t.data[src(g - 1) + 1])]

\* element at a multi-index
At(t, m) == t.data[Flatten(t.shape, m) + 1]

\* int(n ** .5)
ISqrt(n) == CHOOSE r \in 0..n : r * r <= n /\ (r + 1) * (r + 1) > n

----------------------------------------------------------------------------
(* Patch codec: models_mae.py patchify / unpatchify *)

\* the assert of patchify, and the sizes its first reshape needs
PatchifyOk(im, p) ==
    /\ im.shape[3] = im.shape[4]
    /\ im.shape[3] % p = 0
    /\ im.shape[2] = Channels

\* a plausible slip: 'nchpwq->nwhpqc' (grid axes exchanged)
PatchifyPermSwapped == <<1, 5, 3, 4, 6, 2>>

\* 'nchpwq->nhwpqc'
PatchifyPerm == <<1, 3, 5, 4, 6, 2>>

\* 'nhwpqc->nchpwq'
UnpatchifyPerm == <<1, 6, 2, 4, 3, 5>>

patchify(im, p) ==
    LET h == im.shape[3] \div p
        w == h
        x6 == Reshape(im, <<im.shape[1], Channels, h, p, w, p>>)
        xe == EinsumPermute(x6, PatchifyPerm)
    IN  Reshape(xe, <<im.shape[1], h * w, p * p * Channels>>)

\* the assert of unpatchify, and the sizes its first reshape needs
UnpatchifyOk(x, p) ==
    /\ ISqrt(x.shape[2]) * ISqrt(x.shape[2]) = x.shape[2]
    /\ x.shape[3] = p * p * Channels

unpatchify(x, p) ==
    LET h == ISqrt(x.shape[2])
        w == h
        x6 == Reshape(x, <<x.shape[1], h, w, p, p, Channels>>)
        xe == EinsumPermute(x6, UnpatchifyPerm)
    IN  Reshape(xe, <<x.shape[1], Channels, h * p, h * p>>)

\* image contents: every element distinct, or a single marked element
IndexImage(shape) == [shape |-> shape, data |-> Buffer(Numel(shape), LAMBDA g : g)]
OneHotImage(shape, k) ==
    [shape |-> shape, data |-> Buffer(Numel(shape), LAMBDA g : IF g = k THEN 1 ELSE 0)]
Images(shape) == {IndexImage(shape)} \cup {OneHotImage(shape, k) : k \in 1..Numel(shape)}


----------------------------------------------------------------------------
(* 2-D / 3-D tensor operations used by the masking engine and the decoders *)

Tensor2(n, l, F(_, _)) ==
    [shape |-> <<n, l>>,
     data  |-> Buffer(n * l, LAMBDA g : F((g - 1) \div l, (g - 1) % l))]

Tensor3(n, l, d, F(_, _, _)) ==
    [shape |-> <<n, l, d>>,
     data  |-> Buffer(n * l * d,
                      LAMBDA g : F((g - 1) \div (l * d), ((g - 1) \div d) % l, (g - 1) % d))]

Get2(t, n, l) == t.data[n * t.shape[2] + l + 1]
Get3(t, n, l, d) == t.data[(n * t.shape[2] + l) * t.shape[3] + d + 1]

\* t[:, a:b] of a 2-D tensor, t[:, a:b, :] of a 3-D tensor
SliceCols2(t, a, b) == Tensor2(t.shape[1], b - a, LAMBDA n, i : Get2(t, n, a + i))
SliceCols3(t, a, b) == Tensor3(t.shape[1], b - a, t.shape[3], LAMBDA n, i, d : Get3(t, n, a + i, d))

\* idx.unsqueeze(-1).repeat(1, 1, D)
UnsqueezeRepeat(idx, D) == Tensor3(idx.shape[1], idx.shape[2], D, LAMBDA n, i, d : Get2(idx, n, i))

\* torch.gather(t, dim=1, index=idx)
Gather2(t, idx) == Tensor2(idx.shape[1], idx.shape[2], LAMBDA n, i : Get2(t, n, Get2(idx, n, i)))
Gather3(t, idx) ==
    Tensor3(idx.shape[1], idx.shape[2], idx.shape[3], LAMBDA n, i, d : Get3(t, n, Get3(idx, n, i, d), d))

\* torch.cat([a, b], dim=1) of 3-D tensors
Cat3(a, b) ==
    Tensor3(a.shape[1], a.shape[2] + b.shape[2], a.shape[3],
            LAMBDA n, i, d : IF i < a.shape[2] THEN Get3(a, n, i, d) ELSE Get3(b, n, i - a.shape[2], d))

(* torch.argsort(t, dim=1) is not a stable sort: equal values may come out in
   any order.  The order the kernel gives to ties is a priority over the
   positions, pr[j+1] for position j; TieOrders is the family of priorities
   the model lets the kernel use (index order, the stable one, together with
   its rotations and reversals). *)
TieOrders(L) ==
    {[j \in 1..L |-> ((j - 1) + k) % L] : k \in 0..(L - 1)} \cup
    {[j \in 1..L |-> ((L - j) + k) % L] : k \in 0..(L - 1)}

StableOrder(L) == [j \in 1..L |-> j - 1]

\* position j precedes position j2 in row n
SortsBefore(t, n, j, j2, pr) ==
    \/ Get2(t, n, j) < Get2(t, n, j2)
    \/ Get2(t, n, j) = Get2(t, n, j2) /\ pr[j + 1] < pr[j2 + 1]

\* how many positions of row n come before position j
SortRanks(t, pr) ==
    Tensor2(t.shape[1], t.shape[2],
            LAMBDA n, j : Cardinality({j2 \in 0..(t.shape[2] - 1) : SortsBefore(t, n, j2, j, pr)}))

\* the position that has rank i in row n
InvertRanks(ranks) ==
    Tensor2(ranks.shape[1], ranks.shape[2],
            LAMBDA n, i : CHOOSE j \in 0..(ranks.shape[2] - 1) : Get2(ranks, n, j) = i)

Argsort(t, pr) == InvertRanks(SortRanks(t, pr))

\* every outcome of torch.argsort(t, dim=1)
ArgsortSet(t) == {Argsort(t, pr) : pr \in TieOrders(t.shape[2])} \cup {}

\* t.sort(dim=1)[0]
SortValues(t) == Gather2(t, Argsort(t, StableOrder(t.shape[2])))

----------------------------------------------------------------------------
(* Masking engine: models_mae.py random_masking *)

MaskTypes == {"random", "block", "block_remove"}

\* len_keep = int(L * (1 - mask_ratio)), mask_ratio = num / MaskDen
LenKeep(L, num) == (L * (MaskDen - num)) \div MaskDen

\* rows torch.rand may draw: every row over 0..MaxNoise ...
AllRows(L) == [1..L -> 0..MaxNoise]

\* ... or, for longer sequences, the rows of a small congruential generator
GeneratorRows(L) == {[l \in 1..L |-> (l * m) % (MaxNoise + 2)] : m \in 0..(MaxNoise + 1)}

\* torch.rand(N, L): sample n sees the drawn row rotated by n places
RandNoise(N, L, rows) ==
    {Tensor2(N, L, LAMBDA n, l : base[((l + n) % L) + 1]) : base \in rows}

\* a plausible slip: block-remove sized like block-keep, from len_keep
WindowSideSlip(L, len_keep, mtype) == ISqrt(len_keep)

\* side of the window of the block strategies
WindowSide(L, len_keep, mtype) ==
    IF mtype = "block" THEN ISqrt(len_keep) ELSE ISqrt(L - len_keep)

\* np.random.randint(sqL - wL) raises unless sqL - wL > 0
RandintRaises(L, len_keep, mtype) == ISqrt(L) - WindowSide(L, len_keep, mtype) <= 0

\* noise.reshape(N, L) raises unless int(sqL) * int(sqL) = L
ReshapeRaises(L) == ISqrt(L) * ISqrt(L) # L

\* the (N, sqL, sqL) grid after the window loop; off[n+1] = <<wX, wY>>
BlockGrid(N, sqL, wL, mtype, off) ==
    Tensor3(N, sqL, sqL,
            LAMBDA n, r, c :
                LET inwin == /\ off[n + 1][2] <= r /\ r < off[n + 1][2] + wL
                             /\ off[n + 1][1] <= c /\ c < off[n + 1][1] + wL
                IN  IF mtype = "block" THEN (IF inwin THEN 0 ELSE 1)
                                       ELSE (IF inwin THEN 1 ELSE 0))

\* wX, wY = np.random.randint(k), np.random.randint(k) per sample: sample n
\* sees the drawn pair moved by n places
WindowOffsets(N, k) ==
    {[n \in 1..N |-> <<(o[1] + n - 1) % k, (o[2] + n - 1) % k>>] : o \in (0..(k - 1)) \X (0..(k - 1))}

BlockNoise(N, L, len_keep, mtype) ==
    LET sqL == ISqrt(L)
        wL == WindowSide(L, len_keep, mtype)
    IN  \* (the union makes the draws a set: offsets that give one grid are one draw)
        {Reshape(BlockGrid(N, sqL, wL, mtype, off), <<N, L>>) : off \in WindowOffsets(N, sqL - wL)} \cup {}

\* what raises while the noise is built
NoiseError(L, len_keep, mtype) ==
    IF mtype = "random" THEN "none"
    ELSE IF RandintRaises(L, len_keep, mtype) THEN "randint"
    ELSE IF ReshapeRaises(L) THEN "reshape"
    ELSE "none"

NoiseDraws(N, L, len_keep, mtype, rows) ==
    IF mtype = "random" THEN RandNoise(N, L, rows) ELSE BlockNoise(N, L, len_keep, mtype)

Fill2(n, l, v) == Tensor2(n, l, LAMBDA a, b : v)

\* the two asserts that follow the block construction, on noise.sort(dim=1)[0]
SortedAssertsOk(sorted, len_keep) ==
    /\ SliceCols2(sorted, 0, len_keep) = Fill2(sorted.shape[1], len_keep, 0)
    /\ SliceCols2(sorted, len_keep, sorted.shape[2]) = Fill2(sorted.shape[1], sorted.shape[2] - len_keep, 1)

BlockAssertsOk(nz, len_keep, mtype) ==
    mtype # "random" => SortedAssertsOk(SortValues(nz), len_keep)

\* the keep / remove template: ones with [:, :len_keep] = 0
MaskTemplate(N, L, len_keep) == Tensor2(N, L, LAMBDA n, i : IF i < len_keep THEN 0 ELSE 1)

\* a plausible slip: the shuffle index returned as the restore index
RestoreOfSlip(shuffle, pr) == shuffle

\* ids_restore = torch.argsort(ids_shuffle, dim=1)
RestoreOf(shuffle, pr) == Argsort(shuffle, pr)

\* a plausible slip: the template is unshuffled with the shuffle index
MaskOfSlip(N, L, len_keep, shuffle, restore) == Gather2(MaskTemplate(N, L, len_keep), shuffle)

\* mask = torch.gather(mask, dim=1, index=ids_restore)
MaskOf(N, L, len_keep, shuffle, restore) == Gather2(MaskTemplate(N, L, len_keep), restore)

\* lines 182-199: everything random_masking returns, given the noise and the
\* order the sort gives to ties
random_masking(x, num, nz, pr) ==
    LET N == x.shape[1]
        L == x.shape[2]
        D == x.shape[3]
        len_keep == LenKeep(L, num)
        shuffle == Argsort(nz, pr)
        restore == RestoreOf(shuffle, pr)
        ids_keep == SliceCols2(shuffle, 0, len_keep)
    IN  [ids_shuffle |-> shuffle,
         ids_restore |-> restore,
         x_masked |-> Gather3(x, UnsqueezeRepeat(ids_keep, D)),
         mask |-> MaskOf(N, L, len_keep, shuffle, restore)]

----------------------------------------------------------------------------
(* forward: models_mae.py forward_encoder / forward_decoder / forward_l_decoder /
   forward_loss.  The layers of the network (patch embedding, linear layers,
   transformer blocks, norms) are outside this program: what they return is an
   element that names the layer, the sample, the row of the sequence and the
   component; pos is the row of the positional table added to it (-1: none). *)

Sym(kind, n, row, d) == [kind |-> kind, n |-> n, row |-> row, d |-> d, pos |-> -1]

\* a layer that maps a (N, T, .) sequence to a (N, T, dout) sequence, row by row
Layer(kind, x, dout) == Tensor3(x.shape[1], x.shape[2], dout, LAMBDA n, i, d : Sym(kind, n, i, d))

\* a learned token parameter p.repeat(N, k, 1) / p.expand(N, -1, -1)
TokenRepeat(kind, N, k, D) == Tensor3(N, k, D, LAMBDA n, i, d : Sym(kind, 0, 0, d))

\* x + table[:, first:, :] (the sizes must agree)
AddPos(x, first) ==
    Tensor3(x.shape[1], x.shape[2], x.shape[3],
            LAMBDA n, i, d : [Get3(x, n, i, d) EXCEPT !.pos = i + first])

\* self.patch_embed(imgs): one token per p x p patch, row-major over the grid
patch_embed(im, p) ==
    Tensor3(im.shape[1], (im.shape[3] \div p) * (im.shape[4] \div p), TokenDim,
            LAMBDA n, l, d : Sym("patch_embed", n, l, d))

\* lines 203-206: the sequence that is masked
EncoderTokens(im, p) == AddPos(patch_embed(im, p), 1)

\* lines 211-223: cls token prepended, encoder blocks, norm
EncoderOutput(xm) ==
    Layer("latent", Cat3(AddPos(TokenRepeat("cls_token", xm.shape[1], 1, xm.shape[3]), 0), xm), xm.shape[3])

\* a plausible slip: the decoder sequence is unshuffled with the wrong index
UnshuffleIndexSlip(restore, shuffle) == shuffle

\* the index of the gather that unshuffles: ids_restore
UnshuffleIndex(restore, shuffle) == restore

\* lines 227-236: x as it enters the decoder blocks
DecoderSequence(x, restore, shuffle) ==
    Cat3(SliceCols3(Layer("decoder_embed", x, DecDim), 0, 1),
         Gather3(Cat3(SliceCols3(Layer("decoder_embed", x, DecDim), 1, x.shape[2]),
                      TokenRepeat("mask_token", x.shape[1], restore.shape[2] + 1 - x.shape[2], DecDim)),
                 UnsqueezeRepeat(UnshuffleIndex(restore, shuffle), DecDim)))

\* lines 239-247: decoder blocks, norm, decoder_pred, then the cls row removed
DecoderPred(seq, p) ==
    SliceCols3(Layer("decoder_pred", seq, p * p * Channels), 1, seq.shape[2])

\* lines 256-288: the latent decoder sees the cls token and FT mask tokens only
LDecoderOut(x, restore) ==
    SliceCols3(Layer("l_decoder_pred",
                     AddPos(Cat3(SliceCols3(Layer("l_decoder_embed", x, DecDim), 0, 1),
                                 TokenRepeat("l_mask_token", x.shape[1], restore.shape[2], DecDim)), 0),
                     x.shape[3]),
               1, restore.shape[2] + 1)

\* a plausible slip: ids_restore used where its argsort is meant
LDecoderShuffleSlip(restore) == {restore}

\* line 293: ids_shuffle = torch.argsort(ids_restore, dim=1)
LDecoderShuffle(restore) == ArgsortSet(restore)

\* lines 294-297: the rows of the kept tokens, in the order of the encoder
LDecoderGather(out, shuffle2, T, D) ==
    Gather3(out, UnsqueezeRepeat(SliceCols2(shuffle2, 0, T - 1), D))

----------------------------------------------------------------------------
(* forward_loss *)

\* the number the pixel decoder puts at an element of pred
PredValue(e) == (e.n + e.row + e.d) % 4

\* sum over the patch of (pred - target) ** 2; loss.mean(dim=-1) is this over K
PatchSquares(target, pr, n, l) ==
    SumTo([k \in 1..target.shape[3] |->
              (PredValue(Get3(pr, n, l, k - 1)) - Get3(target, n, l, k - 1))
            * (PredValue(Get3(pr, n, l, k - 1)) - Get3(target, n, l, k - 1))],
          target.shape[3])

\* t.sum() of a tensor
SumAll(t) == SumTo(t.data, Numel(t.shape))

\* a guard the code does not have: 0 when nothing is removed
FloatDivGuarded(num, den, by) ==
    IF by = 0 THEN [kind |-> "finite", num |-> 0, den |-> 1]
    ELSE [kind |-> "finite", num |-> num, den |-> den * by]

\* (num / den) / by in floating point: x / 0 is nan for x = 0 and inf otherwise
FloatDiv(num, den, by) ==
    IF by = 0 THEN [kind |-> (IF num = 0 THEN "nan" ELSE "inf"), num |-> num, den |-> 0]
    ELSE [kind |-> "finite", num |-> num, den |-> den * by]

\* lines 320-323 on target = patchify(imgs) of line 314, norm_pix_loss off
forward_loss(target, pr, msk) ==
    FloatDiv(SumAll(Tensor2(msk.shape[1], msk.shape[2],
                            LAMBDA n, l : PatchSquares(target, pr, n, l) * Get2(msk, n, l))),
             target.shape[3],
             SumAll(msk))

----------------------------------------------------------------------------
(* engine_finetune.py: train_one_epoch and evaluate, run by one process or by
   several worker processes.  The model, the criterion and the data loader are
   outside the program: a batch is what the loop sees of them.  util.misc
   (MetricLogger, SmoothedValue, NativeScaler, all_reduce_mean) is not among
   the sources at hand; the operators marked misc follow the interface the
   specification gives for it. *)

Workers == 1..world

\* a batch as the loop sees it: its sample count, the loss the criterion gives
\* ("finite" with its value, or "nan" / "inf" / "-inf") and the two accuracies
Batch(size, kind, loss, acc1, acc5) ==
    [size |-> size, loss_kind |-> kind, loss |-> loss, acc1 |-> acc1, acc5 |-> acc5]

NonFinite == {"nan", "inf", "-inf"}

\* accuracy(outputs, targets, topk=(1, 5)): top-1 never exceeds top-5
AccPairs == {<<0, 0>>, <<0, 1>>, <<1, 1>>}

\* single-process training: every loss, finite or not
TrainBatches ==
    {Batch(MaxBatchSize, "finite", v, 0, 1) : v \in 0..MaxLoss}
        \cup {Batch(MaxBatchSize, k, 0, 0, 1) : k \in NonFinite}

\* single-process evaluation: every size, finite loss and accuracy pair
EvalBatches ==
    {Batch(s, "finite", v, a[1], a[2]) : s \in 1..MaxBatchSize, v \in 0..MaxLoss, a \in AccPairs}

NoFault == [w |-> 0, i |-> 0, kind |-> "finite"]

\* multi-worker runs: batch i of the shard of worker w, of dataset sd; the
\* distributed sampler gives every worker batches of the same sizes
ShardBatch(md, sd, flt, w, i) ==
    Batch(1 + ((sd + i) % MaxBatchSize),
          IF md = "train" /\ flt.w = w /\ flt.i = i THEN flt.kind ELSE "finite",
          (sd + w * (i + 1)) % (MaxLoss + 1),
          ((sd + w + i) % 2) * ((sd + i) % 2),
          (sd + w + i) % 2)

\* what the data loader of worker w may yield as its batch i
LoaderYields(w, i) ==
    IF world = 1 THEN (IF mode = "train" THEN TrainBatches ELSE EvalBatches)
    ELSE {ShardBatch(mode, seed, fault, w, i)}

----------------------------------------------------------------------------
(* misc: the metric logger *)

MeterNames == {"loss", "acc1", "acc5"}

\* a SmoothedValue: count of the weights and weighted total of the values
NewMeter == [count |-> 0, total |-> 0]

\* MetricLogger(): meters are created on first use
NewLogger == [k \in MeterNames |-> NewMeter]

\* SmoothedValue.update(value, n)
MeterUpdate(m, value, n) == [count |-> m.count + n, total |-> m.total + value * n]

\* SmoothedValue.update(value): the weight defaults to one
MeterUpdateDefault(m, value) == MeterUpdate(m, value, 1)

\* SmoothedValue.global_avg = total / count, kept as the fraction
GlobalAvg(m) == [num |-> m.total, den |-> m.count]

NoAvg == [num |-> 0, den |-> 0]
NoStats == [k \in MeterNames |-> NoAvg]

\* synchronize_between_processes: count and total are summed over the workers
PooledMeter(cs, W, k) ==
    [count |-> SumTo([v \in 1..W |-> cs[v][k].count], W),
     total |-> SumTo([v \in 1..W |-> cs[v][k].total], W)]

PooledLogger(cs, W) == [k \in MeterNames |-> PooledMeter(cs, W, k)]

\* all_reduce_mean(x): the sum over the workers divided by the world size
AllReduceMeanOf(xs, W) == [num |-> SumTo(xs, W), den |-> W]

----------------------------------------------------------------------------
(* misc: loss_scaler(loss, optimizer, ..., update_grad): scaled backward, then
   the clipped optimizer step when update_grad is set *)

\* the .grad buffers before the epoch's zero_grad may hold an older gradient
StaleGrads == {-1}

LossScaler(g, ap, i, update_grad) ==
    [grads |-> g \cup {i},
     applied |-> IF update_grad THEN Append(ap, g \cup {i}) ELSE ap,
     stepped |-> update_grad]

----------------------------------------------------------------------------
(* train_one_epoch: the conditions of the loop body *)

\* a plausible slip: the epoch starts on the gradients the last one left
EpochStartGradsKept(g) == g

\* line 45: optimizer.zero_grad()
EpochStartGrads(g) == {}

\* the batch data_iter_step of epoch e, counted over the whole run
\* (cf. data_iter_step / len(data_loader) + epoch of line 54)
GradId(e, nb, i) == e * nb + i

\* line 82: loss /= accum_iter, the divisor of the loss that is backpropagated
LossDivisor(accum) == accum

\* a plausible slip: only NaN is checked for
IsFiniteSlip(kind) == kind # "nan"

\* line 78: math.isfinite(loss_value)
IsFinite(kind) == kind = "finite"

\* a plausible slip: the boundary is tested on the step index itself
UpdateGradSlip(i, accum) == i % accum = 0

\* line 85: update_grad=(data_iter_step + 1) % accum_iter == 0
UpdateGrad(i, accum) == (i + 1) % accum = 0

\* line 86: if (data_iter_step + 1) % accum_iter == 0: optimizer.zero_grad()
ZeroGradDue(i, accum) == (i + 1) % accum = 0

\* a plausible slip: the averages are read without the synchronization
AfterLoopSkipsSync == "synced"

\* lines 111 and 158: the loop is followed by synchronize_between_processes()
AfterLoop == "syncing"

----------------------------------------------------------------------------
(* Machines: each specification runs one part of the program; the variables
   of the other parts stay idle. *)

MaskIdle ==
    /\ mask_pc = "idle"
    /\ mask_err = "none"
    /\ x_in = None
    /\ ratio_num = 0
    /\ mask_type = "random"
    /\ noise = None
    /\ ids_shuffle = None
    /\ ids_restore = None
    /\ x_masked = None
    /\ mask = None

FwdIdle ==
    /\ fwd_pc = "idle"
    /\ latent = None
    /\ dec_seq = None
    /\ pred = None
    /\ mae_loss = [kind |-> "none", num |-> 0, den |-> 0]
    /\ l_ids_shuffle = None
    /\ latent_pred = None


EngineIdle ==
    /\ mode = "idle"
    /\ epoch = 0
    /\ world = 0
    /\ accum_iter = 1
    /\ num_batches = 0
    /\ seed = 0
    /\ fault = [w |-> 0, i |-> 0, kind |-> "finite"]
    /\ wpc = <<>>
    /\ step = <<>>
    /\ batches = <<>>
    /\ meters = <<>>
    /\ grads = <<>>
    /\ applied = <<>>
    /\ log = <<>>
    /\ loss_value_reduce = <<>>
    /\ contrib = <<>>
    /\ stats = <<>>
CodecIdle ==
    /\ codec_pc = "idle"
    /\ patch_size = 0
    /\ imgs = None
    /\ x_patches = None
    /\ imgs_out = None

InitCodec ==
    /\ MaskIdle
    /\ FwdIdle
    /\ EngineIdle
    /\ codec_pc = "start"
    /\ patch_size \in 1..MaxP
    /\ \E n \in 1..MaxN, hh \in 1..MaxSide, ww \in 1..MaxSide :
          imgs \in Images(<<n, Channels, hh, ww>>)
    /\ x_patches = None
    /\ imgs_out = None

Patchify ==
    /\ codec_pc = "start"
    /\ PatchifyOk(imgs, patch_size)
    /\ x_patches' = patchify(imgs, patch_size)
    /\ codec_pc' = "patched"
    /\ UNCHANGED <<patch_size, imgs, imgs_out, codecOthers>>

PatchifyFail ==
    /\ codec_pc = "start"
    /\ ~PatchifyOk(imgs, patch_size)
    /\ codec_pc' = "failed"
    /\ UNCHANGED <<patch_size, imgs, x_patches, imgs_out, codecOthers>>

Unpatchify ==
    /\ codec_pc = "patched"
    /\ UnpatchifyOk(x_patches, patch_size)
    /\ imgs_out' = unpatchify(x_patches, patch_size)
    /\ codec_pc' = "done"
    /\ UNCHANGED <<patch_size, imgs, x_patches, codecOthers>>

NextCodec == Patchify \/ PatchifyFail \/ Unpatchify

SpecCodec == InitCodec /\ [][NextCodec]_vars


----------------------------------------------------------------------------
(* random_masking called on its own *)

\* sequence lengths a strategy is tried on
SeqLens(mtype) ==
    IF mtype = "random" THEN 1..MaxL ELSE (1..MaxL) \cup {g * g : g \in 1..MaxGrid}

InitMask ==
    /\ CodecIdle
    /\ FwdIdle
    /\ EngineIdle
    /\ mask_pc = "start"
    /\ mask_err = "none"
    /\ mask_type \in MaskTypes
    /\ ratio_num \in 0..MaskDen
    /\ \E n \in 1..MaxN, l \in SeqLens(mask_type) :
          x_in = IndexImage(<<n, l, TokenDim>>)
    /\ noise = None
    /\ ids_shuffle = None
    /\ ids_restore = None
    /\ x_masked = None
    /\ mask = None

\* the call returns
RandomMasking ==
    /\ mask_pc = "start"
    /\ LET N == x_in.shape[1]
           L == x_in.shape[2]
           len_keep == LenKeep(L, ratio_num)
       IN  /\ NoiseError(L, len_keep, mask_type) = "none"
           /\ \E nz \in NoiseDraws(N, L, len_keep, mask_type, AllRows(L)) :
                 /\ BlockAssertsOk(nz, len_keep, mask_type)
                 /\ \E pr \in TieOrders(L) :
                       LET r == random_masking(x_in, ratio_num, nz, pr)
                       IN  /\ noise' = nz
                           /\ ids_shuffle' = r.ids_shuffle
                           /\ ids_restore' = r.ids_restore
                           /\ x_masked' = r.x_masked
                           /\ mask' = r.mask
    /\ mask_pc' = "done"
    /\ UNCHANGED <<mask_err, x_in, ratio_num, mask_type, maskOthers>>

\* the call raises while it builds the noise (randint, reshape)
RandomMaskingNoiseRaises ==
    /\ mask_pc = "start"
    /\ NoiseError(x_in.shape[2], LenKeep(x_in.shape[2], ratio_num), mask_type) # "none"
    /\ mask_err' = NoiseError(x_in.shape[2], LenKeep(x_in.shape[2], ratio_num), mask_type)
    /\ mask_pc' = "failed"
    /\ UNCHANGED <<x_in, ratio_num, mask_type, noise, ids_shuffle, ids_restore,
                   x_masked, mask, maskOthers>>

\* one of the two asserts on the sorted noise fails
RandomMaskingAssertFails ==
    /\ mask_pc = "start"
    /\ LET N == x_in.shape[1]
           L == x_in.shape[2]
           len_keep == LenKeep(L, ratio_num)
       IN  /\ NoiseError(L, len_keep, mask_type) = "none"
           /\ \E nz \in NoiseDraws(N, L, len_keep, mask_type, AllRows(L)) :
                 /\ ~BlockAssertsOk(nz, len_keep, mask_type)
                 /\ noise' = nz
    /\ mask_err' = "assert"
    /\ mask_pc' = "failed"
    /\ UNCHANGED <<x_in, ratio_num, mask_type, ids_shuffle, ids_restore,
                   x_masked, mask, maskOthers>>

NextMask == RandomMasking \/ RandomMaskingNoiseRaises \/ RandomMaskingAssertFails

SpecMask == InitMask /\ [][NextMask]_vars

----------------------------------------------------------------------------
(* forward(imgs, mask_ratio): lines 326-342 *)

InitForward ==
    /\ codec_pc = "idle"
    /\ patch_size \in 1..MaxP
    /\ \E n \in 1..MaxN, g \in 1..MaxFwdGrid :
          /\ g * patch_size <= MaxSide
          /\ imgs = IndexImage(<<n, Channels, g * patch_size, g * patch_size>>)
    /\ x_patches = None
    /\ imgs_out = None
    /\ mask_pc = "idle"
    /\ mask_err = "none"
    /\ x_in = None
    /\ ratio_num \in 0..MaskDen
    /\ mask_type = "random"
    /\ noise = None
    /\ ids_shuffle = None
    /\ ids_restore = None
    /\ x_masked = None
    /\ mask = None
    /\ fwd_pc = "start"
    /\ latent = None
    /\ dec_seq = None
    /\ pred = None
    /\ mae_loss = [kind |-> "none", num |-> 0, den |-> 0]
    /\ l_ids_shuffle = None
    /\ latent_pred = None
    /\ EngineIdle

\* line 327: forward_encoder, which calls random_masking with mask_type "random"
ForwardEncoder ==
    /\ fwd_pc = "start"
    /\ \E x \in {EncoderTokens(imgs, patch_size)} :
       \E nz \in NoiseDraws(x.shape[1], x.shape[2], LenKeep(x.shape[2], ratio_num), mask_type, GeneratorRows(x.shape[2])) :
       \E pr \in TieOrders(x.shape[2]) :
       \E r \in {random_masking(x, ratio_num, nz, pr)} :
          /\ x_in' = x
          /\ noise' = nz
          /\ ids_shuffle' = r.ids_shuffle
          /\ ids_restore' = r.ids_restore
          /\ x_masked' = r.x_masked
          /\ mask' = r.mask
          /\ latent' = EncoderOutput(r.x_masked)
    /\ mask_pc' = "done"
    /\ fwd_pc' = "encoded"
    /\ UNCHANGED <<mask_err, ratio_num, mask_type, dec_seq, pred, mae_loss,
                   l_ids_shuffle, latent_pred, fwdOthers>>

\* line 328: pred = forward_decoder(latent, ids_restore)
ForwardDecoder ==
    /\ fwd_pc = "encoded"
    /\ \E seq \in {AddPos(DecoderSequence(latent, ids_restore, ids_shuffle), 0)} :
          /\ dec_seq' = seq
          /\ pred' = DecoderPred(seq, patch_size)
    /\ fwd_pc' = "decoded"
    /\ UNCHANGED <<latent, mae_loss, l_ids_shuffle, latent_pred, maskVars, fwdOthers>>

\* line 329: mae_loss = forward_loss(imgs, pred, mask)
ForwardLoss ==
    /\ fwd_pc = "decoded"
    /\ \E target \in {patchify(imgs, patch_size)} :
          mae_loss' = forward_loss(target, pred, mask)
    /\ fwd_pc' = "lossed"
    /\ UNCHANGED <<latent, dec_seq, pred, l_ids_shuffle, latent_pred, maskVars, fwdOthers>>

\* lines 331-342: latent_pred = forward_l_decoder(latent, ids_restore), and the return
ForwardLDecoder ==
    /\ fwd_pc = "lossed"
    /\ \E s2 \in LDecoderShuffle(ids_restore) :
       \E out \in {LDecoderGather(LDecoderOut(latent, ids_restore), s2, latent.shape[2], latent.shape[3])} :
          /\ l_ids_shuffle' = s2
          /\ latent_pred' = out
    /\ fwd_pc' = "returned"
    /\ UNCHANGED <<latent, dec_seq, pred, mae_loss, maskVars, fwdOthers>>

NextForward == ForwardEncoder \/ ForwardDecoder \/ ForwardLoss \/ ForwardLDecoder

SpecForward == InitForward /\ [][NextForward]_vars

----------------------------------------------------------------------------
(* train_one_epoch and evaluate: the worker processes *)

\* the locals of W workers before their loops
EngineStart(W, pc0, g0) ==
    /\ world = W
    /\ epoch = 0
    /\ wpc = [w \in 1..W |-> pc0]
    /\ step = [w \in 1..W |-> 0]
    /\ batches = [w \in 1..W |-> <<>>]
    /\ meters = [w \in 1..W |-> NewLogger]
    /\ grads = [w \in 1..W |-> g0]
    /\ applied = [w \in 1..W |-> <<>>]
    /\ log = [w \in 1..W |-> <<>>]
    /\ loss_value_reduce = [w \in 1..W |-> NoAvg]
    /\ contrib = [w \in 1..W |-> NewLogger]
    /\ stats = [w \in 1..W |-> NoStats]

\* lines 37-45: model.train, the metric logger, optimizer.zero_grad()
TrainStart(w) ==
    /\ mode = "train"
    /\ wpc[w] = "start"
    /\ grads' = [grads EXCEPT ![w] = EpochStartGrads(@)]
    /\ wpc' = [wpc EXCEPT ![w] = "loop"]
    /\ UNCHANGED <<mode, epoch, world, accum_iter, num_batches, seed, fault, step, batches, meters,
                   applied, log, loss_value_reduce, contrib, stats, engineOthers>>

\* lines 50-99, the loss being finite: one iteration up to the call of all_reduce_mean
TrainBatch(w) ==
    /\ mode = "train"
    /\ wpc[w] = "loop"
    /\ step[w] < num_batches
    /\ \E b \in LoaderYields(w, step[w]) :
       \E scaled \in {LossScaler(grads[w], applied[w], GradId(epoch, num_batches, step[w]),
                                 UpdateGrad(step[w], accum_iter))} :
       \E zero \in {ZeroGradDue(step[w], accum_iter)} :
          /\ IsFinite(b.loss_kind)
          /\ batches' = [batches EXCEPT ![w] = Append(@, b)]
          \* line 74: metric_logger.update(acc1=..., acc5=...); line 92: update(loss=loss_value)
          /\ meters' = [meters EXCEPT ![w] =
                           [acc1 |-> MeterUpdateDefault(@.acc1, b.acc1),
                            acc5 |-> MeterUpdateDefault(@.acc5, b.acc5),
                            loss |-> MeterUpdateDefault(@.loss, b.loss)]]
          \* lines 83-87
          /\ grads' = [grads EXCEPT ![w] = IF zero THEN {} ELSE scaled.grads]
          /\ applied' = [applied EXCEPT ![w] = scaled.applied]
          /\ log' = [log EXCEPT ![w] =
                        Append(@, [step |-> step[w], loss_kind |-> b.loss_kind,
                                   divisor |-> LossDivisor(accum_iter),
                                   backward |-> GradId(epoch, num_batches, step[w]) \in scaled.grads,
                                   update |-> scaled.stepped, zero |-> zero])]
    /\ wpc' = [wpc EXCEPT ![w] = "reducing"]
    /\ UNCHANGED <<mode, epoch, world, accum_iter, num_batches, seed, fault, step,
                   loss_value_reduce, contrib, stats, engineOthers>>

\* lines 50-80, the loss not being finite: sys.exit(1)
TrainBatchNonFinite(w) ==
    /\ mode = "train"
    /\ wpc[w] = "loop"
    /\ step[w] < num_batches
    /\ \E b \in LoaderYields(w, step[w]) :
          /\ ~IsFinite(b.loss_kind)
          /\ batches' = [batches EXCEPT ![w] = Append(@, b)]
          /\ meters' = [meters EXCEPT ![w] =
                           [@ EXCEPT !.acc1 = MeterUpdateDefault(@, b.acc1),
                                     !.acc5 = MeterUpdateDefault(@, b.acc5)]]
    /\ wpc' = [wpc EXCEPT ![w] = "exited"]
    /\ UNCHANGED <<mode, epoch, world, accum_iter, num_batches, seed, fault, step, grads, applied,
                   log, loss_value_reduce, contrib, stats, engineOthers>>

\* line 101: all_reduce_mean is a collective, it returns when every worker has called it
AllReduceMean ==
    /\ mode = "train"
    /\ \A w \in Workers : wpc[w] = "reducing"
    /\ loss_value_reduce' =
          [w \in Workers |->
              AllReduceMeanOf([v \in Workers |-> batches[v][Len(batches[v])].loss], world)]
    /\ wpc' = [w \in Workers |-> "loop"]
    /\ step' = [w \in Workers |-> step[w] + 1]
    /\ UNCHANGED <<mode, epoch, world, accum_iter, num_batches, seed, fault, batches, meters, grads,
                   applied, log, contrib, stats, engineOthers>>

\* lines 128-155: one iteration of evaluate
EvalBatch(w) ==
    /\ mode = "evaluate"
    /\ wpc[w] = "loop"
    /\ step[w] < num_batches
    /\ \E b \in LoaderYields(w, step[w]) :
          /\ batches' = [batches EXCEPT ![w] = Append(@, b)]
          \* line 153: update(loss=loss.item()); lines 154-155: update(acc, n=batch_size)
          /\ meters' = [meters EXCEPT ![w] =
                           [loss |-> MeterUpdateDefault(@.loss, b.loss),
                            acc1 |-> MeterUpdate(@.acc1, b.acc1, b.size),
                            acc5 |-> MeterUpdate(@.acc5, b.acc5, b.size)]]
    /\ step' = [step EXCEPT ![w] = @ + 1]
    /\ UNCHANGED <<mode, epoch, world, accum_iter, num_batches, seed, fault, wpc, grads, applied,
                   log, loss_value_reduce, contrib, stats, engineOthers>>

\* lines 110-111 and 157-158: the loop is over, the worker enters the synchronization
LoopEnd(w) ==
    /\ wpc[w] = "loop"
    /\ step[w] = num_batches
    /\ contrib' = [contrib EXCEPT ![w] = meters[w]]
    /\ wpc' = [wpc EXCEPT ![w] = AfterLoop]
    /\ UNCHANGED <<mode, epoch, world, accum_iter, num_batches, seed, fault, step, batches, meters,
                   grads, applied, log, loss_value_reduce, stats, engineOthers>>

\* synchronize_between_processes: a collective over all the workers
Synchronize ==
    /\ \A w \in Workers : wpc[w] = "syncing"
    /\ meters' = [w \in Workers |-> PooledLogger(contrib, world)]
    /\ wpc' = [w \in Workers |-> "synced"]
    /\ UNCHANGED <<mode, epoch, world, accum_iter, num_batches, seed, fault, step, batches, grads,
                   applied, log, loss_value_reduce, contrib, stats, engineOthers>>

\* lines 113 and 162-168: {k: meter.global_avg}
Return(w) ==
    /\ wpc[w] = "synced"
    /\ stats' = [stats EXCEPT ![w] = [k \in MeterNames |-> GlobalAvg(meters[w][k])]]
    /\ wpc' = [wpc EXCEPT ![w] = "returned"]
    /\ UNCHANGED <<mode, epoch, world, accum_iter, num_batches, seed, fault, step, batches, meters,
                   grads, applied, log, loss_value_reduce, contrib, engineOthers>>

----------------------------------------------------------------------------
(* train_one_epoch in a single process *)

InitTrain ==
    /\ CodecIdle
    /\ MaskIdle
    /\ FwdIdle
    /\ mode = "train"
    /\ accum_iter \in 1..MaxAccum
    /\ num_batches \in 1..MaxTrainBatches
    /\ seed = 0
    /\ fault = NoFault
    /\ EngineStart(1, "start", StaleGrads)

NextTrain ==
    \/ \E w \in Workers : TrainStart(w)
    \/ \E w \in Workers : TrainBatch(w)
    \/ \E w \in Workers : TrainBatchNonFinite(w)
    \/ AllReduceMean
    \/ \E w \in Workers : LoopEnd(w)
    \/ Synchronize
    \/ \E w \in Workers : Return(w)

SpecTrain == InitTrain /\ [][NextTrain]_vars

(* evaluate in a single process *)

InitEval ==
    /\ CodecIdle
    /\ MaskIdle
    /\ FwdIdle
    /\ mode = "evaluate"
    /\ accum_iter = 1
    /\ num_batches \in 1..MaxBatches
    /\ seed = 0
    /\ fault = NoFault
    /\ EngineStart(1, "loop", {})

NextEval ==
    \/ \E w \in Workers : EvalBatch(w)
    \/ \E w \in Workers : LoopEnd(w)
    \/ Synchronize
    \/ \E w \in Workers : Return(w)

SpecEval == InitEval /\ [][NextEval]_vars

(* several worker processes, all training or all evaluating *)

Faults(W, B) == {NoFault} \cup [w : 1..W, i : 0..(B - 1), kind : NonFinite]

InitDist ==
    /\ CodecIdle
    /\ MaskIdle
    /\ FwdIdle
    /\ mode \in {"train", "evaluate"}
    /\ accum_iter \in (IF mode = "train" THEN 1..MaxAccum ELSE {1})
    /\ num_batches \in 1..MaxBatches
    /\ seed \in 0..MaxSeed
    /\ \E W \in 2..MaxWorkers :
          /\ fault \in (IF mode = "train" THEN Faults(W, num_batches) ELSE {NoFault})
          /\ EngineStart(W, IF mode = "train" THEN "start" ELSE "loop",
                         IF mode = "train" THEN StaleGrads ELSE {})

NextDist ==
    \/ \E w \in Workers : TrainStart(w)
    \/ \E w \in Workers : TrainBatch(w)
    \/ \E w \in Workers : TrainBatchNonFinite(w)
    \/ AllReduceMean
    \/ \E w \in Workers : EvalBatch(w)
    \/ \E w \in Workers : LoopEnd(w)
    \/ Synchronize
    \/ \E w \in Workers : Return(w)

SpecDist == InitDist /\ [][NextDist]_vars

(* the same run under the scheduling the processes have: a worker that can take
   a step of its loop takes it, and a collective every worker has entered
   completes *)

WorkerNext(w) ==
    /\ w \in Workers
    /\ \/ TrainStart(w)
       \/ TrainBatch(w)
       \/ TrainBatchNonFinite(w)
       \/ EvalBatch(w)
       \/ LoopEnd(w)
       \/ Return(w)

DistFairness ==
    /\ \A w \in 1..MaxWorkers : WF_vars(WorkerNext(w))
    /\ WF_vars(AllReduceMean)
    /\ WF_vars(Synchronize)

SpecDistFair == InitDist /\ [][NextDist]_vars /\ DistFairness

----------------------------------------------------------------------------
(* a run of several epochs in a single process: train_one_epoch is called once
   per epoch on the same model and optimizer *)

\* the next call: a new metric logger and a new pass over the data loader; the
\* .grad buffers and the optimizer are the ones the last epoch left
NextEpoch ==
    /\ mode = "train"
    /\ \A w \in Workers : wpc[w] = "returned"
    /\ epoch + 1 < MaxEpochs
    /\ epoch' = epoch + 1
    /\ wpc' = [w \in Workers |-> "start"]
    /\ step' = [w \in Workers |-> 0]
    /\ batches' = [w \in Workers |-> <<>>]
    /\ meters' = [w \in Workers |-> NewLogger]
    /\ log' = [w \in Workers |-> <<>>]
    /\ loss_value_reduce' = [w \in Workers |-> NoAvg]
    /\ contrib' = [w \in Workers |-> NewLogger]
    /\ stats' = [w \in Workers |-> NoStats]
    /\ UNCHANGED <<mode, world, accum_iter, num_batches, seed, fault, grads, applied,
                   engineOthers>>

NextEpochs ==
    \/ \E w \in Workers : TrainStart(w)
    \/ \E w \in Workers : TrainBatch(w)
    \/ \E w \in Workers : TrainBatchNonFinite(w)
    \/ AllReduceMean
    \/ \E w \in Workers : LoopEnd(w)
    \/ Synchronize
    \/ \E w \in Workers : Return(w)
    \/ NextEpoch

SpecEpochs == InitTrain /\ [][NextEpochs]_vars
\* C1: for every valid image tensor (3 channels, square, side divisible by the
\* patch edge), unpatchify(patchify(x)) equals x: same shape, and every element
\* back at its own (sample, channel, row, column) position.
C1_RoundTrip ==
    codec_pc = "done" =>
        /\ imgs_out.shape = imgs.shape
        /\ \A g \in 1..Numel(imgs.shape) : imgs_out.data[g] = imgs.data[g]

\* an image of distinct elements that patchify really reorders
C1_Witness ==
    /\ codec_pc = "done"
    /\ imgs.shape = <<2, 3, 4, 4>>
    /\ patch_size = 2
    /\ imgs = IndexImage(imgs.shape)
    /\ x_patches.data # imgs.data


\* floor(L * (1 - maskRatio)) for maskRatio = num / MaskDen
FloorKeep(L, num) == CHOOSE k \in 0..L : k * MaskDen <= L * (MaskDen - num) /\ L * (MaskDen - num) < (k + 1) * MaskDen

Samples == 0..(x_in.shape[1] - 1)
Positions == 0..(x_in.shape[2] - 1)

\* C2: whenever random_masking returns (any N, L, mask ratio and strategy),
\* every row of ids_restore is a permutation of [0, L) and inverts the
\* shuffle index that sorts the noise: ids_restore[ids_shuffle[i]] = i,
\* also when noise values are tied.
C2_RestoreInvertsShuffle ==
    mask_pc = "done" =>
        /\ ids_restore.shape = <<x_in.shape[1], x_in.shape[2]>>
        /\ \A n \in Samples :
              /\ {Get2(ids_restore, n, j) : j \in Positions} = Positions
              /\ \A i \in Positions : Get2(ids_restore, n, Get2(ids_shuffle, n, i)) = i
              /\ \A i \in Positions : i + 1 \in Positions =>
                    Get2(noise, n, Get2(ids_shuffle, n, i)) <= Get2(noise, n, Get2(ids_shuffle, n, i + 1))

\* a batch of two whose noise has ties, which the sort did not leave in index order
C2_Witness ==
    /\ mask_pc = "done"
    /\ x_in.shape[1] = 2
    /\ \E n \in Samples : \E i, j \in Positions :
          /\ i < j
          /\ Get2(noise, n, Get2(ids_shuffle, n, i)) = Get2(noise, n, Get2(ids_shuffle, n, j))
          /\ Get2(ids_shuffle, n, i) > Get2(ids_shuffle, n, j)
    /\ ids_shuffle # ids_restore

\* C3: whenever random_masking returns, with lenKeep = floor(L*(1-maskRatio)),
\* every row of the mask has exactly L - lenKeep ones, mask[j] = 0 exactly for
\* the positions among the first lenKeep entries of ids_shuffle, and kept
\* token i is the input token at position ids_shuffle[i].
C3_MaskMatchesKept ==
    mask_pc = "done" =>
        LET L == x_in.shape[2]
            lenKeep == FloorKeep(L, ratio_num)
        IN  /\ mask.shape = <<x_in.shape[1], L>>
            /\ x_masked.shape = <<x_in.shape[1], lenKeep, x_in.shape[3]>>
            /\ \A n \in Samples :
                  /\ Cardinality({j \in Positions : Get2(mask, n, j) = 1}) = L - lenKeep
                  /\ \A j \in Positions : Get2(mask, n, j) \in {0, 1}
                  /\ \A j \in Positions :
                        Get2(mask, n, j) = 0 <=> (\E i \in 0..(lenKeep - 1) : Get2(ids_shuffle, n, i) = j)
                  /\ \A i \in 0..(lenKeep - 1), d \in 0..(x_in.shape[3] - 1) :
                        Get3(x_masked, n, i, d) = Get3(x_in, n, Get2(ids_shuffle, n, i), d)

\* some but not all tokens kept, and the kept ones are not the leading positions
C3_Witness ==
    /\ mask_pc = "done"
    /\ x_in.shape[1] = 2
    /\ 0 < FloorKeep(x_in.shape[2], ratio_num)
    /\ FloorKeep(x_in.shape[2], ratio_num) < x_in.shape[2]
    /\ \E n \in Samples : Get2(mask, n, 0) = 1
    /\ ids_shuffle # ids_restore

FwdSamples == 0..(imgs.shape[1] - 1)
\* L: the number of patches of the image
FwdL == (imgs.shape[3] \div patch_size) * (imgs.shape[4] \div patch_size)
FwdLenKeep == FloorKeep(FwdL, ratio_num)

\* C7: for every mask ratio forward_decoder yields exactly L patch rows in
\* original patch order: as the sequence enters the decoder blocks, row 0 is the
\* class token, and row j+1 holds the projected kept token i when
\* j = ids_shuffle[i] for some i < lenKeep and the decoder's mask token when j is
\* a removed position (mask[j] = 1); pred is rows 1..L of the decoder output.
C7_DecoderRestoresOrder ==
    fwd_pc \in {"decoded", "lossed", "returned"} =>
        /\ dec_seq.shape = <<imgs.shape[1], FwdL + 1, DecDim>>
        /\ pred.shape = <<imgs.shape[1], FwdL, patch_size * patch_size * Channels>>
        /\ \A n \in FwdSamples, d \in 0..(DecDim - 1) :
              /\ Get3(dec_seq, n, 0, d) = [Sym("decoder_embed", n, 0, d) EXCEPT !.pos = 0]
              /\ \A j \in 0..(FwdL - 1) :
                    /\ \A i \in 0..(FwdLenKeep - 1) :
                          Get2(ids_shuffle, n, i) = j =>
                              /\ Get3(dec_seq, n, j + 1, d) = [Sym("decoder_embed", n, i + 1, d) EXCEPT !.pos = j + 1]
                              /\ Get3(x_masked, n, i, 0).row = j
                    /\ Get2(mask, n, j) = 1 =>
                          Get3(dec_seq, n, j + 1, d) = [Sym("mask_token", 0, 0, d) EXCEPT !.pos = j + 1]
                    /\ Get2(mask, n, j) = 1 \/ \E i \in 0..(FwdLenKeep - 1) : Get2(ids_shuffle, n, i) = j
        /\ \A n \in FwdSamples, j \in 0..(FwdL - 1), k \in 0..(pred.shape[3] - 1) :
              Get3(pred, n, j, k) = Sym("decoder_pred", n, j + 1, k)

\* two samples, some patches kept and some removed, shuffled by a permutation
\* that is not its own inverse
C7_Witness ==
    /\ fwd_pc = "decoded"
    /\ imgs.shape[1] = 2
    /\ 1 < FwdLenKeep
    /\ FwdLenKeep < FwdL
    /\ ids_shuffle # ids_restore
    /\ Get2(mask, 0, 0) = 1

\* C8: forward_l_decoder returns a tensor of shape (N, tokenCount-1, D_enc)
\* whose row i is the latent decoder's output for original patch position
\* ids_shuffle[i]; the ids_shuffle it recomputes from ids_restore is the one of
\* the masking step.
C8_LatentRowsInKeptOrder ==
    fwd_pc = "returned" =>
        /\ latent.shape = <<imgs.shape[1], FwdLenKeep + 1, TokenDim>>
        /\ latent_pred.shape = <<imgs.shape[1], latent.shape[2] - 1, TokenDim>>
        /\ l_ids_shuffle = ids_shuffle
        /\ \A n \in FwdSamples, i \in 0..(latent.shape[2] - 2), d \in 0..(TokenDim - 1) :
              Get3(latent_pred, n, i, d) = Sym("l_decoder_pred", n, Get2(ids_shuffle, n, i) + 1, d)

C8_Witness ==
    /\ fwd_pc = "returned"
    /\ imgs.shape[1] = 2
    /\ latent.shape[2] - 1 >= 2
    /\ latent.shape[2] - 1 < FwdL
    /\ ids_shuffle # ids_restore
    /\ Get2(ids_shuffle, 0, 0) # 0

\* C9 as stated: with a mask in which every patch is kept (mask sum zero),
\* forward_loss is rejected by a guard and hands no loss value to its caller.
C9_AllKeptRejected ==
    (fwd_pc \in {"lossed", "returned"} /\ SumAll(mask) = 0) => mae_loss.kind = "none"

\* C9 amended: forward_loss has no guard.  With mask sum zero it returns the
\* quotient 0 / 0, nan, to forward, which returns it; the loss is a finite
\* number exactly when at least one patch is removed.
C9_AllKeptGivesNaN ==
    fwd_pc \in {"lossed", "returned"} =>
        /\ SumAll(mask) = 0 => (mae_loss.kind = "nan" /\ ratio_num = 0)
        /\ SumAll(mask) > 0 =>
              /\ mae_loss.kind = "finite"
              /\ mae_loss.den = patch_size * patch_size * Channels * SumAll(mask)
              /\ mae_loss.num >= 0

\* forward has returned with mask ratio 0: nothing was removed
C9_Witness ==
    /\ fwd_pc = "returned"
    /\ ratio_num = 0
    /\ SumAll(mask) = 0
    /\ mask.shape = <<2, 4>>
    /\ mae_loss.kind = "nan"

----------------------------------------------------------------------------
(* Properties of train_one_epoch and evaluate *)

\* the batches of the current accumulation window once k iterations are logged
OpenWindow(k, accum) == {i \in 0..(k - 1) : i >= k - (k % accum)}

\* C4: in train_one_epoch the optimizer step (update_grad handed to the loss
\* scaler) and the zero_grad that follows it happen at batch stepIndex if and
\* only if (stepIndex + 1) % accumSteps = 0; at every other batch the scaled
\* backward only accumulates: the gradients of the open window stay in place
\* and the optimizer has stepped once per boundary passed.
C4_StepIffBoundary ==
    mode = "train" =>
        \A w \in Workers :
            /\ \A k \in 1..Len(log[w]) :
                  /\ log[w][k].step = k - 1
                  /\ log[w][k].backward
                  /\ log[w][k].update <=> (((k - 1) + 1) % accum_iter = 0)
                  /\ log[w][k].zero <=> (((k - 1) + 1) % accum_iter = 0)
            /\ Len(applied[w]) = Len(log[w]) \div accum_iter
            /\ wpc[w] # "start" => grads[w] = OpenWindow(Len(log[w]), accum_iter)

\* three batches with accum_iter 2: batch 1 stepped and zeroed, batch 2 only accumulated
C4_Witness ==
    /\ mode = "train"
    /\ accum_iter = 2
    /\ Len(log[1]) = 3
    /\ ~log[1][1].update
    /\ log[1][2].update
    /\ log[1][2].zero
    /\ ~log[1][3].update
    /\ grads[1] = {2}
    /\ Len(applied[1]) = 1

\* C5: in train_one_epoch a batch whose loss is not finite (nan, inf, -inf) ends
\* training at that batch: it is the last batch the loader yields, the worker
\* has exited, the batch has no scaled backward, optimizer step or zero_grad
\* (the log, the gradients and the optimizer are as the earlier batches left
\* them), its loss is not recorded, and no statistics are returned.
C5_NonFiniteStops ==
    mode = "train" =>
        \A w \in Workers :
            /\ \A k \in 1..Len(batches[w]) :
                  batches[w][k].loss_kind # "finite" =>
                      /\ k = Len(batches[w])
                      /\ wpc[w] = "exited"
                      /\ step[w] = k - 1
                      /\ Len(log[w]) = k - 1
                      /\ (k - 1) \notin grads[w]
                      /\ \A s \in 1..Len(applied[w]) : (k - 1) \notin applied[w][s]
                      /\ Len(applied[w]) = (k - 1) \div accum_iter
                      /\ meters[w].loss.count = k - 1
                      /\ stats[w] = NoStats
            /\ wpc[w] = "exited" =>
                  /\ batches[w] # <<>>
                  /\ batches[w][Len(batches[w])].loss_kind \in NonFinite

\* an infinite loss at the second of three batches, where a step was due
C5_Witness ==
    /\ mode = "train"
    /\ wpc[1] = "exited"
    /\ num_batches = 3
    /\ accum_iter = 2
    /\ Len(batches[1]) = 2
    /\ batches[1][2].loss_kind = "inf"
    /\ grads[1] = {0}
    /\ applied[1] = <<>>

\* the value a batch gives to a meter
BatchValue(b, k) == IF k = "loss" THEN b.loss ELSE IF k = "acc1" THEN b.acc1 ELSE b.acc5

\* sum over the batches bs of f(b)
RECURSIVE SumBatches(_, _, _)
SumBatches(bs, k, weighted) ==
    IF bs = <<>> THEN 0
    ELSE (IF weighted THEN BatchValue(Head(bs), k) * Head(bs).size
          ELSE IF k = "size" THEN Head(bs).size ELSE BatchValue(Head(bs), k))
         + SumBatches(Tail(bs), k, weighted)

\* C10 as stated: every average evaluate reports (loss, acc1, acc5) equals
\* sum(value_b * size_b) / sum(size_b) over the batches b.
C10_AveragesWeightedBySize ==
    (mode = "evaluate" /\ world = 1 /\ wpc[1] = "returned") =>
        \A k \in MeterNames :
            stats[1][k].num * SumBatches(batches[1], "size", FALSE)
                = stats[1][k].den * SumBatches(batches[1], k, TRUE)

\* C6: with W workers each running train_one_epoch or evaluate, every returned
\* statistic is the mean over all W workers of the per-process averages, and it
\* is computed at the synchronization: every worker returns the same value,
\* whatever its own per-process average is.
C6_StatsAreCrossWorkerMeans ==
    \A w \in Workers :
        wpc[w] = "returned" =>
            \A k \in MeterNames :
                /\ \A v \in Workers : wpc[v] \in {"synced", "returned"}
                /\ \A v \in Workers : contrib[v][k].count = contrib[w][k].count
                /\ contrib[w][k].count > 0
                /\ stats[w][k].den > 0
                \* stats = (sum over v of total_v / count) / W
                /\ stats[w][k].num * world * contrib[w][k].count
                      = stats[w][k].den * SumTo([v \in Workers |-> contrib[v][k].total], world)
                /\ \A v \in Workers : wpc[v] = "returned" => stats[v][k] = stats[w][k]

\* two workers have returned a loss that is the per-process average of neither
C6_Witness ==
    /\ world = 2
    /\ wpc[1] = "returned"
    /\ wpc[2] = "returned"
    /\ num_batches = 2
    /\ \A w \in Workers :
          stats[w].loss.num * contrib[w].loss.count # stats[w].loss.den * contrib[w].loss.total

\* a worker process has ended, by sys.exit or by returning
Terminated(w) == wpc[w] \in {"exited", "returned"}

\* C11 as stated: in a run of W >= 2 workers executing train_one_epoch, once a
\* worker has aborted on a non-finite loss no other worker returns averaged
\* statistics, and every other worker terminates too instead of staying blocked
\* for good at the per-step or the end-of-epoch reduction.
C11_WholeRunAborts ==
    /\ []((mode = "train" /\ \E w \in Workers : wpc[w] = "exited")
              => \A v \in Workers : wpc[v] # "returned")
    /\ ((mode = "train" /\ \E w \in Workers : wpc[w] = "exited")
              ~> (\A v \in Workers : Terminated(v)))

----------------------------------------------------------------------------
(* The block strategies of random_masking *)

IsSquare(k) == \E s \in 0..k : s * s = k

\* the largest s with s * s <= k
Root(k) == CHOOSE s \in 0..k : s * s <= k /\ k < (s + 1) * (s + 1)

\* the number of positions the window is meant to cover: the kept ones for
\* block-keep, the removed ones for block-remove
WindowArea == IF mask_type = "block" THEN FloorKeep(x_in.shape[2], ratio_num)
              ELSE x_in.shape[2] - FloorKeep(x_in.shape[2], ratio_num)

\* positions of sample n whose noise is v
NoiseCount(n, v) == Cardinality({j \in Positions : Get2(noise, n, j) = v})

BlockCallEnded ==
    /\ mask_type \in {"block", "block_remove"}
    /\ IsSquare(x_in.shape[2])
    /\ mask_pc \in {"done", "failed"}

----------------------------------------------------------------------------
(* Gradient accumulation over a run of several epochs *)

\* optimizer steps one epoch takes
StepsPerEpoch == num_batches \div accum_iter

\* the batches of accumulation window j of epoch e, counted over the whole run
Window(e, j) ==
    {e * num_batches + i : i \in (j * accum_iter)..((j + 1) * accum_iter - 1)}

\* C13: over any sequence of epochs, any number of batches per epoch and any
\* accumSteps >= 1, every optimizer step applies the gradients of exactly
\* accumSteps consecutive batches of the epoch it is taken in, each from a loss
\* divided by accumSteps; the gradients are zero at the start of each epoch and
\* right after each optimizer step, so no gradient of an earlier window or an
\* earlier epoch is part of a later step.
C13_StepsApplyOneWindow ==
    mode = "train" =>
        \A w \in Workers :
            /\ Len(applied[w]) = epoch * StepsPerEpoch + Len(log[w]) \div accum_iter
            /\ \A s \in 1..Len(applied[w]) :
                  /\ applied[w][s] = Window((s - 1) \div StepsPerEpoch, (s - 1) % StepsPerEpoch)
                  /\ Cardinality(applied[w][s]) = accum_iter
                  /\ \A t \in 1..Len(applied[w]) : s # t => applied[w][s] \cap applied[w][t] = {}
            /\ \A k \in 1..Len(log[w]) : log[w][k].divisor = accum_iter
            /\ (wpc[w] = "loop" /\ step[w] = 0) => grads[w] = {}
            /\ (log[w] # <<>> /\ log[w][Len(log[w])].update) => grads[w] = {}
            /\ wpc[w] # "start" =>
                  grads[w] = {epoch * num_batches + i : i \in OpenWindow(Len(log[w]), accum_iter)}

\* second epoch of three batches with accum_iter 2: the step of the second
\* epoch leaves out batch 2, whose gradient the first epoch left behind
C13_Witness ==
    /\ mode = "train"
    /\ epoch = 1
    /\ num_batches = 3
    /\ accum_iter = 2
    /\ applied[1] = <<{0, 1}, {3, 4}>>
    /\ grads[1] = {5}
====
